---- MODULE Spec2Model ----
(***************************************************************************)
(* Model of the macOS composite-process-id engine (cpid_macos.c):          *)
(* the handle lifecycle (cpid_initialize / cpid_finalize), the identifier  *)
(* derivation (cpid_make_uuid / cpid_get_uuid / cpid_get_uuid_string) and  *)
(* the process time query (cpid_get_process_creation_time).                *)
(*                                                                         *)
(* Pointers are integers: 0 is NULL, a handle slot number s is the address *)
(* of the heap block of slot s and of the OpenSSL objects that block owns. *)
(* Bytes are integers 0..255, characters are ASCII codes.                  *)
(***************************************************************************)
EXTENDS Integers, Sequences, FiniteSets, TLC

VARIABLES
    heap,          \* heap[s]: the struct cpid_struct block at address s
    ctx,           \* ctx[s]: the EVP_MD_CTX object at address s
    md,            \* md[s]: the EVP_MD algorithm object at address s
    double_free,   \* TRUE once a released object was released again
    uaf,           \* TRUE once released memory was read
    lib,           \* the caller's cpid_handle_t variable
    uuid,          \* the caller's uuid_t output buffer
    uuid_string,   \* the caller's uuid_string_t output buffer
    call,          \* the last API call: its arguments and result
    frozen,        \* the constant fields as the last successful cpid_initialize set them
    pc,            \* concurrent derivation: position of each thread
    targ,          \* concurrent derivation: arguments of each thread
    tout,          \* concurrent derivation: output buffer of each thread
    tret,          \* concurrent derivation: return code of each thread
    mode,          \* concurrent derivation: how the threads share handles
    lock           \* concurrent derivation: owner of the external mutex, 0 if free

vars == <<heap, ctx, md, double_free, uaf, lib, uuid, uuid_string, call, frozen,
          pc, targ, tout, tret, mode, lock>>

seqVars == <<heap, ctx, md, double_free, uaf, lib, uuid, uuid_string, call, frozen>>
concVars == <<pc, targ, tout, tret, mode, lock>>

---------------------------------------------------------------------------
(* Program constants *)

KERNEL_TASK_PID == 0
LAUNCHD_PID == 1
MACOS_SERIAL_NUMBER_BUFFER_SIZE == 16
MAX_MICROS_OFFSET == 999999
OPEN_SSL_SUCCESS == 1
UUID_SIZE == 16                \* sizeof(uuid_t)
UUID_STRING_SIZE == 37         \* sizeof(uuid_string_t)
EVP_MAX_MD_SIZE == 64
\* ../constants.h is not part of the sources at hand
RETURN_SUCCESS == 0
RETURN_ERROR == 1
SHA256_BUFFER_SIZE == 32
MAX_PID == 99999

NULL == 0

(* Bounds of the model *)
NumHandles == 2                \* heap blocks calloc can hand out
NumThreads == 2                \* concurrent callers

Slots == 1..NumHandles
Threads == 1..NumThreads

---------------------------------------------------------------------------
(* Bit and byte helpers *)

RECURSIVE BitAnd(_, _)
BitAnd(a, b) ==
    IF a = 0 \/ b = 0 THEN 0
    ELSE (IF a % 2 = 1 /\ b % 2 = 1 THEN 1 ELSE 0) + 2 * BitAnd(a \div 2, b \div 2)

RECURSIVE BitOr(_, _)
BitOr(a, b) ==
    IF a = 0 THEN b
    ELSE IF b = 0 THEN a
    ELSE (IF a % 2 = 1 \/ b % 2 = 1 THEN 1 ELSE 0) + 2 * BitOr(a \div 2, b \div 2)

Zeros(n) == [i \in 1..n |-> 0]

Pow256(i) == CASE i = 0 -> 1 [] i = 1 -> 256 [] i = 2 -> 65536 [] i = 3 -> 16777216

\* the 8 bytes of a uint64_t in memory (little endian); values stay below 2^31
LE64(x) == [i \in 1..8 |-> IF i <= 4 THEN (x \div Pow256(i - 1)) % 256 ELSE 0]

\* a uint64_t value passed as a uint32_t argument keeps its low 4 bytes
NarrowU32(x) ==
    LET b == LE64(x) IN b[1] + 256 * b[2] + 65536 * b[3] + 16777216 * b[4]

\* a C string copied into a zeroed char buffer of the given size
CString(chars, size) == [i \in 1..size |-> IF i <= Len(chars) THEN chars[i] ELSE 0]

---------------------------------------------------------------------------
(* The digest input record and its serialization *)

ZeroTime == [unix_epoch_seconds |-> 0, micros_offset |-> 0]

\* digest_input_content_t of a block that calloc has zeroed
ZeroContent ==
    [serial_number |-> Zeros(MACOS_SERIAL_NUMBER_BUFFER_SIZE),
     hardware_uuid |-> Zeros(UUID_SIZE),
     kernel_task_creation_time |-> ZeroTime,
     launchd_creation_time |-> ZeroTime,
     process_creation_time |-> ZeroTime,
     pid |-> 0]

\* the bytes of process_creation_time_t (packed)
TimeBytes(t) == LE64(t.unix_epoch_seconds) \o LE64(t.micros_offset)

\* the bytes of digest_input_content_t (packed, no padding)
Serialize(r) ==
    r.serial_number \o r.hardware_uuid
        \o TimeBytes(r.kernel_task_creation_time)
        \o TimeBytes(r.launchd_creation_time)
        \o TimeBytes(r.process_creation_time)
        \o LE64(r.pid)

---------------------------------------------------------------------------
(* OpenSSL: the digest is a fixed function of the bytes fed since the last  *)
(* initialisation of the context                                           *)

\* an order-sensitive checksum of data, taken eight bytes at a time from chunk k on
ByteAt(data, i) == IF i <= Len(data) THEN data[i] ELSE 0

Chunk(data, k) ==
    LET b == 8 * k
    IN 3 * ByteAt(data, b + 1) + 5 * ByteAt(data, b + 2) + 7 * ByteAt(data, b + 3)
         + 11 * ByteAt(data, b + 4) + 13 * ByteAt(data, b + 5) + 17 * ByteAt(data, b + 6)
         + 19 * ByteAt(data, b + 7) + 23 * ByteAt(data, b + 8) + 1

RECURSIVE Mix(_, _, _)
Mix(data, k, acc) ==
    IF 8 * k >= Len(data) THEN acc
    ELSE Mix(data, k + 1, (acc * 31 + Chunk(data, k)) % 65521)

Sha256(data) ==
    LET a == Mix(data, 0, 7)
    IN [i \in 1..SHA256_BUFFER_SIZE |-> ((a + i) * (2 * i + 5) + (a \div (i + 1))) % 256]

NoCtx == [st |-> "none", data |-> <<>>]

EVP_MD_CTX_new == [st |-> "new", data |-> <<>>]

\* a context that is initialised without dropping what it was fed before
EVP_DigestInit_ex2_keeps_data(c) == [c EXCEPT !.st = "inited"]

EVP_DigestInit_ex2(c) == [st |-> "inited", data |-> <<>>]

EVP_DigestUpdate(c, bytes) == [c EXCEPT !.data = @ \o bytes]

\* the context after EVP_DigestFinal_ex, and the digest it writes
EVP_DigestFinal_ex(c) == [ctx |-> [c EXCEPT !.st = "finalized"], digest |-> Sha256(c.data)]

\* what the OpenSSL calls of one derivation report
OpenSslOutcomes ==
    { [init |-> OPEN_SSL_SUCCESS, update |-> OPEN_SSL_SUCCESS, final |-> OPEN_SSL_SUCCESS, size |-> SHA256_BUFFER_SIZE],
      [init |-> 0, update |-> OPEN_SSL_SUCCESS, final |-> OPEN_SSL_SUCCESS, size |-> SHA256_BUFFER_SIZE],
      [init |-> OPEN_SSL_SUCCESS, update |-> 0, final |-> OPEN_SSL_SUCCESS, size |-> SHA256_BUFFER_SIZE],
      [init |-> OPEN_SSL_SUCCESS, update |-> OPEN_SSL_SUCCESS, final |-> 0, size |-> SHA256_BUFFER_SIZE],
      [init |-> OPEN_SSL_SUCCESS, update |-> OPEN_SSL_SUCCESS, final |-> OPEN_SSL_SUCCESS, size |-> 20] }

AllSucceed ==
    [init |-> OPEN_SSL_SUCCESS, update |-> OPEN_SSL_SUCCESS, final |-> OPEN_SSL_SUCCESS, size |-> SHA256_BUFFER_SIZE]

---------------------------------------------------------------------------
(* The process time source *)

\* what sysctl(KERN_PROC_PID) leaves in process_info, with its return code
ProcInfo(rc, p, sec, usec) == [rc |-> rc, p_pid |-> p, tv_sec |-> sec, tv_usec |-> usec]

\* start times the kernel reports for a process
StartTimes(pid) ==
    CASE pid = KERNEL_TASK_PID -> { <<1, 0>> }
      [] pid = LAUNCHD_PID -> { <<2, 0>> }
      [] OTHER -> { <<1700000000, 500000>>, <<1700000000, 1000000>> }

ProcInfos(pid) ==
    { ProcInfo(0, pid, t[1], t[2]) : t \in StartTimes(pid) }
        \cup { ProcInfo(-1, 0, 0, 0),        \* sysctl fails, process_info stays zeroed
               ProcInfo(0, 0, 0, 0),         \* no such process: nothing is filled in
               ProcInfo(0, pid, 0, 0),       \* start time not known
               ProcInfo(0, pid + 1, 5, 0),   \* another process answers
               ProcInfo(0, -1, 5, 0),
               ProcInfo(0, pid, -1, 0),
               ProcInfo(0, pid, 5, -1) }

\* the query without the check for a zero start time
cpid_get_process_creation_time_accepts_zero(pid, ptr, dst, info) ==
    IF pid > MAX_PID \/ ptr = NULL \/ info.rc # 0 \/ info.p_pid < 0 \/ info.p_pid # pid
         \/ info.tv_sec < 0 \/ info.tv_usec < 0
    THEN [ret |-> RETURN_ERROR, t |-> dst]
    ELSE [ret |-> RETURN_SUCCESS,
          t |-> [unix_epoch_seconds |-> info.tv_sec, micros_offset |-> info.tv_usec]]

\* dst is *process_creation_time before the call; t is its content after it
cpid_get_process_creation_time(pid, ptr, dst, info) ==
    IF pid > MAX_PID \/ ptr = NULL
    THEN [ret |-> RETURN_ERROR, t |-> dst]
    ELSE IF info.rc # 0
    THEN [ret |-> RETURN_ERROR, t |-> dst]
    ELSE IF info.p_pid < 0
    THEN [ret |-> RETURN_ERROR, t |-> dst]
    ELSE IF info.p_pid # pid \/ info.tv_sec = 0
    THEN [ret |-> RETURN_ERROR, t |-> dst]
    ELSE IF info.tv_sec < 0 \/ info.tv_usec < 0
    THEN [ret |-> RETURN_ERROR, t |-> dst]
    ELSE [ret |-> RETURN_SUCCESS,
          t |-> [unix_epoch_seconds |-> info.tv_sec, micros_offset |-> info.tv_usec]]

---------------------------------------------------------------------------
(* The hardware identity source *)

\* "ABC123", "C02XK1", and a serial number of 16 characters
SerialABC == <<65, 66, 67, 49, 50, 51>>
SerialC02 == <<67, 48, 50, 88, 75, 49>>
SerialLong == [i \in 1..16 |-> 65]

\* the registry: is the service found, and the property (NULL if absent)
SerialSources ==
    { [service |-> FALSE, property |-> <<>>, present |-> FALSE],
      [service |-> TRUE, property |-> <<>>, present |-> FALSE],
      [service |-> TRUE, property |-> SerialABC, present |-> TRUE],
      [service |-> TRUE, property |-> SerialC02, present |-> TRUE],
      [service |-> TRUE, property |-> SerialLong, present |-> TRUE] }

\* CFStringGetCString needs room for the characters and the terminator
cpid_get_serial_number(dst, size, src) ==
    IF size = 0 THEN [ret |-> RETURN_ERROR, buf |-> dst]
    ELSE IF ~src.service THEN [ret |-> RETURN_ERROR, buf |-> dst]
    ELSE IF ~src.present THEN [ret |-> RETURN_ERROR, buf |-> dst]
    ELSE IF Len(src.property) + 1 > size THEN [ret |-> RETURN_ERROR, buf |-> dst]
    ELSE [ret |-> RETURN_SUCCESS, buf |-> CString(src.property, size)]

IsHexChar(c) == c \in 48..57 \/ c \in 65..70 \/ c \in 97..102

HexValue(c) == IF c \in 48..57 THEN c - 48 ELSE IF c \in 65..70 THEN c - 55 ELSE c - 87

\* 1-based positions of the hyphens (character 45) and of the first digit of each byte
HyphenPositions == {9, 14, 19, 24}
BytePosition(i) ==
    2 * i - 1 + (IF i > 4 THEN 1 ELSE 0) + (IF i > 6 THEN 1 ELSE 0)
              + (IF i > 8 THEN 1 ELSE 0) + (IF i > 10 THEN 1 ELSE 0)

\* uuid_parse: 0 and the 16 bytes, or -1
uuid_parse(text) ==
    IF /\ Len(text) = UUID_STRING_SIZE - 1
       /\ \A i \in 1..Len(text) :
            IF i \in HyphenPositions THEN text[i] = 45 ELSE IsHexChar(text[i])
    THEN [ret |-> 0,
          uu |-> [i \in 1..UUID_SIZE |->
                    16 * HexValue(text[BytePosition(i)]) + HexValue(text[BytePosition(i) + 1])]]
    ELSE [ret |-> -1, uu |-> <<>>]

HexUpper(n) == IF n < 10 THEN 48 + n ELSE 55 + n
HexLowerCase(n) == IF n < 10 THEN 48 + n ELSE 87 + n

\* uuid_unparse: the 36 characters and the terminator; the platform picks the case
uuid_unparse(uu, upper) ==
    [i \in 1..UUID_STRING_SIZE |->
        IF i = UUID_STRING_SIZE THEN 0
        ELSE IF i \in HyphenPositions THEN 45
        ELSE LET k == CHOOSE k \in 1..UUID_SIZE : BytePosition(k) = i \/ BytePosition(k) + 1 = i
                 n == IF BytePosition(k) = i THEN uu[k] \div 16 ELSE uu[k] % 16
             IN IF upper THEN HexUpper(n) ELSE HexLowerCase(n)]

tolower(c) == IF c \in 65..90 THEN c + 32 ELSE c

\* the platform UUID as the registry holds it, and a property that is no UUID
HardwareUuid == [i \in 1..UUID_SIZE |-> (17 * i + 3) % 256]
HardwareUuidText == SubSeq(uuid_unparse(HardwareUuid, TRUE), 1, UUID_STRING_SIZE - 1)

UuidSources ==
    { [root |-> FALSE, property |-> <<>>, present |-> FALSE],
      [root |-> TRUE, property |-> <<>>, present |-> FALSE],
      [root |-> TRUE, property |-> HardwareUuidText, present |-> TRUE],
      [root |-> TRUE, property |-> SerialABC, present |-> TRUE] }

cpid_get_hardware_uuid(dst, src) ==
    IF ~src.root THEN [ret |-> RETURN_ERROR, uu |-> dst]
    ELSE IF ~src.present THEN [ret |-> RETURN_ERROR, uu |-> dst]
    ELSE IF Len(src.property) + 1 > UUID_STRING_SIZE THEN [ret |-> RETURN_ERROR, uu |-> dst]
    ELSE LET parsed == uuid_parse(src.property)
         IN IF parsed.ret # 0 THEN [ret |-> RETURN_ERROR, uu |-> dst]
            ELSE [ret |-> RETURN_SUCCESS, uu |-> parsed.uu]


---------------------------------------------------------------------------
(* The handle: struct cpid_struct and what it owns *)

\* the block calloc returns: all bytes zero
ZeroBlock ==
    [st |-> "live",
     digest_context |-> NULL,
     sha256 |-> NULL,
     digest_destination_buffer |-> Zeros(EVP_MAX_MD_SIZE),
     digest_input_content |-> ZeroContent]

NoBlock == [ZeroBlock EXCEPT !.st = "unalloc"]

\* a released block: its content is indeterminate
FreedBlock == [ZeroBlock EXCEPT !.st = "freed"]

FreedCtx == [st |-> "freed", data |-> <<>>]

\* the memory and the OpenSSL objects, as one value W
World == [heap |-> heap, ctx |-> ctx, md |-> md, double_free |-> double_free, uaf |-> uaf]

EVP_MD_CTX_free(W, p) ==
    [W EXCEPT !.ctx[p] = FreedCtx, !.double_free = @ \/ W.ctx[p].st = "freed"]

EVP_MD_free(W, p) ==
    [W EXCEPT !.md[p] = "freed", !.double_free = @ \/ W.md[p] = "freed"]

free(W, p) ==
    [W EXCEPT !.heap[p] = FreedBlock, !.double_free = @ \/ W.heap[p].st = "freed"]

\* what a read of a released block may yield for its two pointer fields
StaleReads(p) == [digest_context : {NULL, p}, sha256 : {NULL, p}]

NoStale == [digest_context |-> NULL, sha256 |-> NULL]

\* a teardown that forgets the digest context
cpid_finalize_keeps_context(W, library_handle, stale) ==
    IF library_handle = NULL THEN W
    ELSE LET live == W.heap[library_handle].st = "live"
             sh == IF live THEN W.heap[library_handle].sha256 ELSE stale.sha256
             W2 == IF sh # NULL THEN EVP_MD_free(W, sh) ELSE W
             W3 == free(W2, library_handle)
         IN [W3 EXCEPT !.uaf = @ \/ ~live]

\* stale is what the two pointer fields read as when the block was released before
cpid_finalize(W, library_handle, stale) ==
    IF library_handle = NULL THEN W
    ELSE LET live == W.heap[library_handle].st = "live"
             dc == IF live THEN W.heap[library_handle].digest_context ELSE stale.digest_context
             sh == IF live THEN W.heap[library_handle].sha256 ELSE stale.sha256
             W1 == IF dc # NULL THEN EVP_MD_CTX_free(W, dc) ELSE W
             W2 == IF sh # NULL THEN EVP_MD_free(W1, sh) ELSE W1
             W3 == free(W2, library_handle)
         IN [W3 EXCEPT !.uaf = @ \/ ~live]

\* what the allocators and the platform sources answer during cpid_initialize
\* every step succeeds, for a host with the given serial number
GoodInit(serial) ==
    [calloc |-> TRUE, fetch |-> TRUE, ctx_new |-> TRUE,
     serial |-> [service |-> TRUE, property |-> serial, present |-> TRUE],
     hw |-> [root |-> TRUE, property |-> HardwareUuidText, present |-> TRUE],
     kernel |-> ProcInfo(0, KERNEL_TASK_PID, 1, 0),
     launchd |-> ProcInfo(0, LAUNCHD_PID, 2, 0)]

\* the break at the first failure makes the later answers irrelevant: vary one at a time
InitInputs ==
    {GoodInit(SerialABC), GoodInit(SerialC02)}
        \cup {[GoodInit(SerialABC) EXCEPT !.calloc = FALSE],
              [GoodInit(SerialABC) EXCEPT !.fetch = FALSE],
              [GoodInit(SerialABC) EXCEPT !.ctx_new = FALSE]}
        \cup {[GoodInit(SerialABC) EXCEPT !.serial = x] : x \in SerialSources}
        \cup {[GoodInit(SerialABC) EXCEPT !.hw = x] : x \in UuidSources}
        \cup {[GoodInit(SerialABC) EXCEPT !.kernel = x] : x \in ProcInfos(KERNEL_TASK_PID)}
        \cup {[GoodInit(SerialABC) EXCEPT !.launchd = x] : x \in ProcInfos(LAUNCHD_PID)}

\* the do { ... } while(0) block; s is the block calloc returned
InitializeBody(W0, s, in) ==
    IF ~in.fetch THEN [w |-> W0, rc |-> RETURN_ERROR, step |-> "fetch"]
    ELSE
    LET W1 == [W0 EXCEPT !.heap[s].sha256 = s, !.md[s] = "live"] IN
    IF ~in.ctx_new THEN [w |-> W1, rc |-> RETURN_ERROR, step |-> "ctx_new"]
    ELSE
    LET W2 == [W1 EXCEPT !.heap[s].digest_context = s, !.ctx[s] = EVP_MD_CTX_new]
        sn == cpid_get_serial_number(W2.heap[s].digest_input_content.serial_number,
                                     MACOS_SERIAL_NUMBER_BUFFER_SIZE, in.serial)
        W3 == [W2 EXCEPT !.heap[s].digest_input_content.serial_number = sn.buf]
    IN
    IF sn.ret # RETURN_SUCCESS THEN [w |-> W3, rc |-> sn.ret, step |-> "serial"]
    ELSE
    LET hu == cpid_get_hardware_uuid(W3.heap[s].digest_input_content.hardware_uuid, in.hw)
        W4 == [W3 EXCEPT !.heap[s].digest_input_content.hardware_uuid = hu.uu]
    IN
    IF hu.ret # RETURN_SUCCESS THEN [w |-> W4, rc |-> hu.ret, step |-> "hardware_uuid"]
    ELSE
    LET kt == cpid_get_process_creation_time(KERNEL_TASK_PID, s,
                  W4.heap[s].digest_input_content.kernel_task_creation_time, in.kernel)
        W5 == [W4 EXCEPT !.heap[s].digest_input_content.kernel_task_creation_time = kt.t]
    IN
    IF kt.ret # RETURN_SUCCESS THEN [w |-> W5, rc |-> kt.ret, step |-> "kernel_task"]
    ELSE
    LET lt == cpid_get_process_creation_time(LAUNCHD_PID, s,
                  W5.heap[s].digest_input_content.launchd_creation_time, in.launchd)
        W6 == [W5 EXCEPT !.heap[s].digest_input_content.launchd_creation_time = lt.t]
    IN
    IF lt.ret # RETURN_SUCCESS THEN [w |-> W6, rc |-> lt.ret, step |-> "launchd"]
    ELSE [w |-> W6, rc |-> RETURN_SUCCESS, step |-> "none"]

\* s is the block calloc returns when it succeeds
cpid_initialize(W, s, in) ==
    IF ~in.calloc THEN [ret |-> NULL, w |-> W, step |-> "calloc"]
    ELSE LET W0 == [W EXCEPT !.heap[s] = ZeroBlock]
             r == InitializeBody(W0, s, in)
         IN IF r.rc # RETURN_SUCCESS
            THEN [ret |-> NULL, w |-> cpid_finalize(r.w, s, NoStale), step |-> r.step]
            ELSE [ret |-> s, w |-> r.w, step |-> r.step]

---------------------------------------------------------------------------
(* Derivation: the statements of cpid_make_uuid on a block h and its context c *)

\* the creation time stored one field too early
SetProcessInfo_overwrites_launchd(h, pid, seconds, micros) ==
    [h EXCEPT !.digest_input_content.pid = pid,
              !.digest_input_content.launchd_creation_time =
                  [unix_epoch_seconds |-> seconds, micros_offset |-> micros]]

SetProcessInfo(h, pid, seconds, micros) ==
    [h EXCEPT !.digest_input_content.pid = pid,
              !.digest_input_content.process_creation_time =
                  [unix_epoch_seconds |-> seconds, micros_offset |-> micros]]

\* EVP_DigestFinal_ex writes the digest at the start of the destination buffer
StoreDigest(h, digest) ==
    [h EXCEPT !.digest_destination_buffer =
        [i \in 1..EVP_MAX_MD_SIZE |-> IF i <= Len(digest) THEN digest[i] ELSE @[i]]]

\* the version nibble of a UUIDv4 instead: | 0x40
ImprintVersion_v4(h) ==
    [h EXCEPT !.digest_destination_buffer[7] = BitOr(BitAnd(@, 15), 64)]

\* digest_destination_buffer[6] = (digest_destination_buffer[6] & 0x0F) | 0x80
ImprintVersion(h) ==
    [h EXCEPT !.digest_destination_buffer[7] = BitOr(BitAnd(@, 15), 128)]

\* digest_destination_buffer[8] = (digest_destination_buffer[8] & 0x3F) | 0x80
ImprintVariant(h) ==
    [h EXCEPT !.digest_destination_buffer[9] = BitOr(BitAnd(@, 63), 128)]

\* memcpy(uuid, digest_destination_buffer, sizeof(uuid_t))
CopyOut(h) == SubSeq(h.digest_destination_buffer, 1, UUID_SIZE)

Result(ret, h, c, out) == [ret |-> ret, h |-> h, c |-> c, out |-> out]

\* the argument check without the pid range
MakeUuidRejects_any_pid(lh, pid, micros, out_ptr) ==
    lh = NULL \/ micros > MAX_MICROS_OFFSET \/ out_ptr = NULL

\* the argument check at the head of cpid_make_uuid
MakeUuidRejects(lh, pid, micros, out_ptr) ==
    lh = NULL \/ pid > MAX_PID \/ micros > MAX_MICROS_OFFSET \/ out_ptr = NULL

\* lh: the handle passed; h, c: the block and context it points to;
\* out_ptr, out: the uuid argument and the buffer behind it; e: the OpenSSL outcomes
cpid_make_uuid(lh, h, c, pid, seconds, micros, out_ptr, out, e) ==
    IF MakeUuidRejects(lh, pid, micros, out_ptr)
    THEN Result(RETURN_ERROR, h, c, out)
    ELSE
    LET h1 == SetProcessInfo(h, pid, seconds, micros) IN
    IF e.init # OPEN_SSL_SUCCESS THEN Result(RETURN_ERROR, h1, c, out)
    ELSE
    LET c1 == EVP_DigestInit_ex2(c) IN
    IF e.update # OPEN_SSL_SUCCESS THEN Result(RETURN_ERROR, h1, c1, out)
    ELSE
    LET c2 == EVP_DigestUpdate(c1, Serialize(h1.digest_input_content)) IN
    IF e.final # OPEN_SSL_SUCCESS THEN Result(RETURN_ERROR, h1, c2, out)
    ELSE
    LET f == EVP_DigestFinal_ex(c2)
        h2 == StoreDigest(h1, f.digest)
    IN
    IF e.size # SHA256_BUFFER_SIZE THEN Result(RETURN_ERROR, h2, f.ctx, out)
    ELSE
    LET h4 == ImprintVariant(ImprintVersion(h2))
    IN Result(RETURN_SUCCESS, h4, f.ctx, CopyOut(h4))

cpid_get_uuid(lh, h, c, pid, out_ptr, out, info, e) ==
    IF lh = NULL \/ out_ptr = NULL THEN Result(RETURN_ERROR, h, c, out)
    ELSE
    LET q == cpid_get_process_creation_time(pid, 1, ZeroTime, info) IN
    IF q.ret # RETURN_SUCCESS THEN Result(RETURN_ERROR, h, c, out)
    ELSE
    LET r == cpid_make_uuid(lh, h, c, pid, q.t.unix_epoch_seconds,
                            NarrowU32(q.t.micros_offset), out_ptr, out, e)
    IN IF r.ret # RETURN_SUCCESS THEN Result(RETURN_ERROR, r.h, r.c, r.out)
       ELSE Result(RETURN_SUCCESS, r.h, r.c, r.out)

\* no normalisation: the text as uuid_unparse rendered it
Lowercase_missing(text) == text

\* the loop over sizeof(uuid_string_t) characters
Lowercase(text) == [i \in 1..Len(text) |-> tolower(text[i])]

\* the result of cpid_get_uuid is not checked before rendering
cpid_get_uuid_string_unchecked(lh, h, c, pid, out_ptr, out, info, e, upper) ==
    IF lh = NULL \/ out_ptr = NULL THEN Result(RETURN_ERROR, h, c, out)
    ELSE
    LET r == cpid_get_uuid(lh, h, c, pid, 1, Zeros(UUID_SIZE), info, e)
    IN Result(r.ret, r.h, r.c, Lowercase(uuid_unparse(r.out, upper)))

\* out is the uuid_string buffer; upper is the case uuid_unparse renders in
cpid_get_uuid_string(lh, h, c, pid, out_ptr, out, info, e, upper) ==
    IF lh = NULL \/ out_ptr = NULL THEN Result(RETURN_ERROR, h, c, out)
    ELSE
    LET r == cpid_get_uuid(lh, h, c, pid, 1, Zeros(UUID_SIZE), info, e) IN
    IF r.ret # RETURN_SUCCESS THEN Result(RETURN_ERROR, r.h, r.c, out)
    ELSE Result(RETURN_SUCCESS, r.h, r.c, Lowercase(uuid_unparse(r.out, upper)))

\* the fields of the record that cpid_initialize sets
ConstantFields(h) ==
    [serial_number |-> h.digest_input_content.serial_number,
     hardware_uuid |-> h.digest_input_content.hardware_uuid,
     kernel_task_creation_time |-> h.digest_input_content.kernel_task_creation_time,
     launchd_creation_time |-> h.digest_input_content.launchd_creation_time]

---------------------------------------------------------------------------
(* The caller: one action per API function, called to completion *)

\* the calls a caller makes: two valid argument tuples, and each way to go wrong
ArgA == [pid |-> 4321, seconds |-> 1700000000, micros |-> 500000]
ArgB == [pid |-> MAX_PID, seconds |-> 1, micros |-> MAX_MICROS_OFFSET]

MakeCall(a) ==
    [lh_null |-> FALSE, pid |-> a.pid, seconds |-> a.seconds, micros |-> a.micros,
     out_ptr |-> 1, e |-> AllSucceed]

MakeCalls ==
    {MakeCall(ArgA), MakeCall(ArgB)}
        \cup {[MakeCall(ArgA) EXCEPT !.e = e] : e \in OpenSslOutcomes}
        \cup {[MakeCall(ArgA) EXCEPT !.pid = MAX_PID + 1],
              [MakeCall(ArgA) EXCEPT !.micros = MAX_MICROS_OFFSET + 1],
              [MakeCall(ArgA) EXCEPT !.lh_null = TRUE],
              [MakeCall(ArgA) EXCEPT !.out_ptr = NULL]}

GetCall(pid, info) ==
    [lh_null |-> FALSE, pid |-> pid, out_ptr |-> 1, e |-> AllSucceed, info |-> info]

\* the process ArgA names, as the kernel reports it
InfoA == ProcInfo(0, ArgA.pid, ArgA.seconds, ArgA.micros)

GetCalls ==
    {GetCall(ArgA.pid, info) : info \in ProcInfos(ArgA.pid)}
        \cup {[GetCall(ArgA.pid, InfoA) EXCEPT !.e = e] : e \in OpenSslOutcomes}
        \cup {GetCall(MAX_PID + 1, ProcInfo(0, MAX_PID + 1, ArgA.seconds, ArgA.micros)),
              [GetCall(ArgA.pid, InfoA) EXCEPT !.lh_null = TRUE],
              [GetCall(ArgA.pid, InfoA) EXCEPT !.out_ptr = NULL]}

\* uuid_unparse renders in upper case on macOS; the other case is tried as well
GetStringCall(pid, info, upper) ==
    [lh_null |-> FALSE, pid |-> pid, out_ptr |-> 1, e |-> AllSucceed, info |-> info,
     upper |-> upper]

GetStringCalls ==
    {GetStringCall(ArgA.pid, InfoA, TRUE), GetStringCall(ArgA.pid, InfoA, FALSE),
     GetStringCall(ArgA.pid, ProcInfo(0, 0, 0, 0), TRUE),
     GetStringCall(ArgA.pid, ProcInfo(0, ArgA.pid, ArgA.seconds, MAX_MICROS_OFFSET + 1), TRUE),
     [GetStringCall(ArgA.pid, InfoA, TRUE) EXCEPT !.lh_null = TRUE],
     [GetStringCall(ArgA.pid, InfoA, TRUE) EXCEPT !.out_ptr = NULL]}
        \cup {[GetStringCall(ArgA.pid, InfoA, TRUE) EXCEPT !.e = e] : e \in OpenSslOutcomes}

NoCall ==
    [op |-> "none", lh |-> NULL, pid |-> 0, seconds |-> 0, micros |-> 0,
     out_ptr |-> NULL, info |-> ProcInfo(0, 0, 0, 0), e |-> AllSucceed, upper |-> FALSE,
     ret |-> 0, step |-> "none"]

Install(W) ==
    /\ heap' = W.heap
    /\ ctx' = W.ctx
    /\ md' = W.md
    /\ double_free' = W.double_free
    /\ uaf' = W.uaf

\* behaviour is defined as long as no released object was touched
Defined == ~uaf /\ ~double_free

\* calloc hands out the lowest block that is not in use, or fails
FreeBlocks(W) == {s \in Slots : W.heap[s].st # "live"}
Calloc(W) == CHOOSE s \in FreeBlocks(W) : \A t \in FreeBlocks(W) : s <= t

\* the block and context a derivation works on: those lib points to
Block == IF lib = NULL THEN NoBlock ELSE heap[lib]
Context == IF lib = NULL THEN NoCtx ELSE ctx[lib]

\* a derivation stores what it did to the block and context lib points to
Store(r) ==
    /\ heap' = IF lib = NULL THEN heap ELSE [heap EXCEPT ![lib] = r.h]
    /\ ctx' = IF lib = NULL THEN ctx ELSE [ctx EXCEPT ![lib] = r.c]

\* the caller passes the handle it holds, or NULL, never a released handle
Usable == IF lib = NULL THEN TRUE ELSE heap[lib].st = "live"

\* lib = cpid_initialize(), by a caller that holds no live handle
Initialize ==
    /\ Defined
    /\ IF lib = NULL THEN TRUE ELSE heap[lib].st # "live"
    /\ \E in \in InitInputs :
         /\ in.calloc => FreeBlocks(World) # {}
         /\ LET r == cpid_initialize(World, IF in.calloc THEN Calloc(World) ELSE NULL, in)
            IN /\ Install(r.w)
               /\ lib' = r.ret
               /\ frozen' = IF r.ret = NULL THEN frozen ELSE ConstantFields(r.w.heap[r.ret])
               /\ call' = [NoCall EXCEPT !.op = "initialize", !.ret = r.ret, !.step = r.step]
    /\ UNCHANGED <<uuid, uuid_string, concVars>>

\* cpid_finalize(lib) or cpid_finalize(NULL); lib keeps its value
Finalize ==
    /\ Defined
    /\ \E p \in {NULL, lib} :
       \E stale \in (IF p = NULL THEN {NoStale} ELSE StaleReads(p)) :
         /\ Install(cpid_finalize(World, p, stale))
         /\ call' = [NoCall EXCEPT !.op = "finalize", !.lh = p]
    /\ UNCHANGED <<lib, frozen, uuid, uuid_string, concVars>>

MakeIdentifier ==
    /\ Defined /\ Usable
    /\ \E a \in MakeCalls :
         LET lh == IF a.lh_null THEN NULL ELSE lib
             r == cpid_make_uuid(lh, Block, Context, a.pid, a.seconds, a.micros,
                                 a.out_ptr, uuid, a.e)
         IN /\ Store(r)
            /\ uuid' = r.out
            /\ call' = [NoCall EXCEPT !.op = "make", !.lh = lh, !.pid = a.pid,
                                      !.seconds = a.seconds, !.micros = a.micros,
                                      !.out_ptr = a.out_ptr, !.e = a.e, !.ret = r.ret]
    /\ UNCHANGED <<md, double_free, uaf, lib, frozen, uuid_string, concVars>>

GetIdentifier ==
    /\ Defined /\ Usable
    /\ \E a \in GetCalls :
         LET lh == IF a.lh_null THEN NULL ELSE lib
             r == cpid_get_uuid(lh, Block, Context, a.pid, a.out_ptr, uuid, a.info, a.e)
         IN /\ Store(r)
            /\ uuid' = r.out
            /\ call' = [NoCall EXCEPT !.op = "get", !.lh = lh, !.pid = a.pid,
                                      !.out_ptr = a.out_ptr, !.info = a.info, !.e = a.e,
                                      !.ret = r.ret]
    /\ UNCHANGED <<md, double_free, uaf, lib, frozen, uuid_string, concVars>>

GetIdentifierString ==
    /\ Defined /\ Usable
    /\ \E a \in GetStringCalls :
         LET lh == IF a.lh_null THEN NULL ELSE lib
             r == cpid_get_uuid_string(lh, Block, Context, a.pid, a.out_ptr, uuid_string,
                                       a.info, a.e, a.upper)
         IN /\ Store(r)
            /\ uuid_string' = r.out
            /\ call' = [NoCall EXCEPT !.op = "get_string", !.lh = lh, !.pid = a.pid,
                                      !.out_ptr = a.out_ptr, !.info = a.info, !.e = a.e,
                                      !.upper = a.upper, !.ret = r.ret]
    /\ UNCHANGED <<md, double_free, uaf, lib, frozen, uuid, concVars>>

\* nothing allocated; the caller's buffers hold whatever the caller left there
Init ==
    /\ heap = [s \in Slots |-> NoBlock]
    /\ ctx = [s \in Slots |-> NoCtx]
    /\ md = [s \in Slots |-> "none"]
    /\ double_free = FALSE
    /\ uaf = FALSE
    /\ lib = NULL
    /\ uuid = [i \in 1..UUID_SIZE |-> 255]
    /\ uuid_string = [i \in 1..UUID_STRING_SIZE |-> 63]
    /\ call = NoCall
    /\ frozen = ConstantFields(NoBlock)
    /\ pc = [t \in Threads |-> "idle"]
    /\ targ = [t \in Threads |-> ArgA]
    /\ tout = [t \in Threads |-> Zeros(UUID_SIZE)]
    /\ tret = [t \in Threads |-> RETURN_SUCCESS]
    /\ mode = "sequential"
    /\ lock = 0

Next ==
    \/ Initialize
    \/ Finalize
    \/ MakeIdentifier
    \/ GetIdentifier
    \/ GetIdentifierString

Spec == Init /\ [][Next]_vars

---------------------------------------------------------------------------
(* Concurrent callers: cpid_make_uuid statement by statement, by NumThreads  *)
(* threads, on one shared handle (with or without an external mutex) or on  *)
(* a handle each. The OpenSSL calls succeed.                               *)

EmptyWorld ==
    [heap |-> [s \in Slots |-> NoBlock], ctx |-> [s \in Slots |-> NoCtx],
     md |-> [s \in Slots |-> "none"], double_free |-> FALSE, uaf |-> FALSE]

\* cpid_initialize has succeeded once for every block from s on
RECURSIVE InitializeAll(_, _)
InitializeAll(W, s) ==
    IF s > NumHandles THEN W
    ELSE InitializeAll(cpid_initialize(W, s, GoodInit(SerialABC)).w, s + 1)

ReadyWorld == InitializeAll(EmptyWorld, 1)

Modes == {"shared", "locked", "separate"}

\* the handle thread t passes
HandleOf(t) == IF mode = "separate" THEN ((t - 1) % NumHandles) + 1 ELSE 1

Goto(t, label) == pc' = [pc EXCEPT ![t] = label]

\* the caller takes the external mutex before the call
TLock(t) ==
    /\ mode = "locked" /\ pc[t] = "start" /\ lock = 0
    /\ lock' = t
    /\ Goto(t, "check")
    /\ UNCHANGED <<seqVars, targ, tout, tret, mode>>

\* the caller calls without a mutex
TCall(t) ==
    /\ mode # "locked" /\ pc[t] = "start"
    /\ Goto(t, "check")
    /\ UNCHANGED <<seqVars, targ, tout, tret, mode, lock>>

TCheck(t) ==
    /\ pc[t] = "check"
    /\ IF MakeUuidRejects(HandleOf(t), targ[t].pid, targ[t].micros, 1)
       THEN /\ tret' = [tret EXCEPT ![t] = RETURN_ERROR]
            /\ Goto(t, "return")
       ELSE /\ tret' = tret
            /\ Goto(t, "set")
    /\ UNCHANGED <<seqVars, targ, tout, mode, lock>>

TSet(t) ==
    /\ pc[t] = "set"
    /\ heap' = [heap EXCEPT ![HandleOf(t)] =
                   SetProcessInfo(@, targ[t].pid, targ[t].seconds, targ[t].micros)]
    /\ Goto(t, "init")
    /\ UNCHANGED <<ctx, md, double_free, uaf, lib, uuid, uuid_string, call, frozen,
                   targ, tout, tret, mode, lock>>

TInit(t) ==
    /\ pc[t] = "init"
    /\ ctx' = [ctx EXCEPT ![HandleOf(t)] = EVP_DigestInit_ex2(@)]
    /\ Goto(t, "update")
    /\ UNCHANGED <<heap, md, double_free, uaf, lib, uuid, uuid_string, call, frozen,
                   targ, tout, tret, mode, lock>>

TUpdate(t) ==
    /\ pc[t] = "update"
    /\ ctx' = [ctx EXCEPT ![HandleOf(t)] =
                  EVP_DigestUpdate(@, Serialize(heap[HandleOf(t)].digest_input_content))]
    /\ Goto(t, "final")
    /\ UNCHANGED <<heap, md, double_free, uaf, lib, uuid, uuid_string, call, frozen,
                   targ, tout, tret, mode, lock>>

TFinal(t) ==
    /\ pc[t] = "final"
    /\ LET f == EVP_DigestFinal_ex(ctx[HandleOf(t)])
       IN /\ heap' = [heap EXCEPT ![HandleOf(t)] = StoreDigest(@, f.digest)]
          /\ ctx' = [ctx EXCEPT ![HandleOf(t)] = f.ctx]
    /\ Goto(t, "version")
    /\ UNCHANGED <<md, double_free, uaf, lib, uuid, uuid_string, call, frozen,
                   targ, tout, tret, mode, lock>>

TVersion(t) ==
    /\ pc[t] = "version"
    /\ heap' = [heap EXCEPT ![HandleOf(t)] = ImprintVersion(@)]
    /\ Goto(t, "variant")
    /\ UNCHANGED <<ctx, md, double_free, uaf, lib, uuid, uuid_string, call, frozen,
                   targ, tout, tret, mode, lock>>

TVariant(t) ==
    /\ pc[t] = "variant"
    /\ heap' = [heap EXCEPT ![HandleOf(t)] = ImprintVariant(@)]
    /\ Goto(t, "copy")
    /\ UNCHANGED <<ctx, md, double_free, uaf, lib, uuid, uuid_string, call, frozen,
                   targ, tout, tret, mode, lock>>

TCopy(t) ==
    /\ pc[t] = "copy"
    /\ tout' = [tout EXCEPT ![t] = CopyOut(heap[HandleOf(t)])]
    /\ tret' = [tret EXCEPT ![t] = RETURN_SUCCESS]
    /\ Goto(t, "return")
    /\ UNCHANGED <<seqVars, targ, mode, lock>>

\* the caller releases the mutex after the call
TUnlock(t) ==
    /\ mode = "locked" /\ pc[t] = "return" /\ lock = t
    /\ lock' = 0
    /\ Goto(t, "done")
    /\ UNCHANGED <<seqVars, targ, tout, tret, mode>>

TReturn(t) ==
    /\ mode # "locked" /\ pc[t] = "return"
    /\ Goto(t, "done")
    /\ UNCHANGED <<seqVars, targ, tout, tret, mode, lock>>

\* every handle is Ready; each thread is about to call with arguments of its own
InitConc ==
    /\ heap = ReadyWorld.heap
    /\ ctx = ReadyWorld.ctx
    /\ md = ReadyWorld.md
    /\ double_free = FALSE
    /\ uaf = FALSE
    /\ lib = 1
    /\ uuid = [i \in 1..UUID_SIZE |-> 255]
    /\ uuid_string = [i \in 1..UUID_STRING_SIZE |-> 63]
    /\ call = NoCall
    /\ frozen = ConstantFields(ReadyWorld.heap[1])
    /\ pc = [t \in Threads |-> "start"]
    /\ targ \in [Threads -> {ArgA, ArgB}]
    /\ tout = [t \in Threads |-> [i \in 1..UUID_SIZE |-> 255]]
    /\ tret = [t \in Threads |-> RETURN_ERROR]
    /\ mode \in Modes
    /\ lock = 0

NextConc ==
    \/ \E t \in Threads : TLock(t)
    \/ \E t \in Threads : TCall(t)
    \/ \E t \in Threads : TCheck(t)
    \/ \E t \in Threads : TSet(t)
    \/ \E t \in Threads : TInit(t)
    \/ \E t \in Threads : TUpdate(t)
    \/ \E t \in Threads : TFinal(t)
    \/ \E t \in Threads : TVersion(t)
    \/ \E t \in Threads : TVariant(t)
    \/ \E t \in Threads : TCopy(t)
    \/ \E t \in Threads : TUnlock(t)
    \/ \E t \in Threads : TReturn(t)

SpecConc == InitConc /\ [][NextConc]_vars

\* what thread t's call returns when it runs alone on a Ready handle
RunAlone(t) ==
    cpid_make_uuid(1, ReadyWorld.heap[1], ReadyWorld.ctx[1], targ[t].pid, targ[t].seconds,
                   targ[t].micros, 1, [i \in 1..UUID_SIZE |-> 255], AllSucceed)

---------------------------------------------------------------------------
(* Properties *)

Sentinel16 == [i \in 1..UUID_SIZE |-> 255]

DerivationOps == {"make", "get", "get_string"}

\* the identifier as a function of the constant fields and the arguments alone
ExpectedIdentifier(k, pid, seconds, micros) ==
    LET d == Sha256(Serialize(
                 [serial_number |-> k.serial_number,
                  hardware_uuid |-> k.hardware_uuid,
                  kernel_task_creation_time |-> k.kernel_task_creation_time,
                  launchd_creation_time |-> k.launchd_creation_time,
                  process_creation_time |-> [unix_epoch_seconds |-> seconds,
                                             micros_offset |-> micros],
                  pid |-> pid]))
    IN [i \in 1..UUID_SIZE |->
          IF i = 7 THEN 128 + (d[7] % 16)
          ELSE IF i = 9 THEN 128 + (d[9] % 64)
          ELSE d[i]]

\* nothing of any handle is outstanding
NothingOutstanding ==
    \A s \in Slots :
        /\ heap[s].st # "live"
        /\ ctx[s].st \in {"none", "freed"}
        /\ md[s] # "live"

\* C1: a cpid_initialize that fails at any step returns NULL and leaves nothing
\* outstanding: the block, the algorithm and the context acquired up to that step
\* are released, and none of them twice.
InitializeFailureReleasesAll ==
    (call.op = "initialize" /\ call.step # "none") =>
        /\ call.ret = NULL
        /\ lib = NULL
        /\ NothingOutstanding
        /\ ~double_free
        /\ ~uaf

\* the last step fails: block, algorithm and context were all acquired and are released
InitializeFailsAtLaunchd ==
    /\ call.op = "initialize" /\ call.step = "launchd" /\ call.ret = NULL
    /\ \E s \in Slots : heap[s].st = "freed" /\ ctx[s].st = "freed" /\ md[s] = "freed"

\* C2: cpid_finalize on NULL, or a second time on the same handle, releases nothing
\* a second time and reads no released memory.
FinalizeIsIdempotent ==
    call.op = "finalize" => (~double_free /\ ~uaf)

\* C3: a successful cpid_make_uuid returns bytes that depend on the constant fields
\* set by cpid_initialize and on (pid, seconds, micros) only: the same on every call,
\* whatever ran on the handle before, and the same for every handle with these fields.
MakeIdentifierIsDeterministic ==
    (call.op = "make" /\ call.ret = RETURN_SUCCESS) =>
        uuid = ExpectedIdentifier(frozen, call.pid, call.seconds, call.micros)

\* a successful call after other derivations have run and left their output behind
MakeIdentifierAfterOtherCalls ==
    /\ call.op = "make" /\ call.ret = RETURN_SUCCESS
    /\ call.pid = ArgB.pid
    /\ uuid_string[1] # 63

\* C4: a successful cpid_make_uuid returns the first 16 bytes of the digest with the
\* high nibble of byte 6 set to 1000 and the two high bits of byte 8 set to 10; all
\* other bits are those of the digest.
VersionAndVariantBits ==
    (call.op = "make" /\ call.ret = RETURN_SUCCESS) =>
        LET d == Sha256(ctx[lib].data)
        IN /\ uuid[7] \div 16 = 8
           /\ uuid[7] % 16 = d[7] % 16
           /\ uuid[9] \div 64 = 2
           /\ uuid[9] % 64 = d[9] % 64
           /\ \A i \in (1..UUID_SIZE) \ {7, 9} : uuid[i] = d[i]

\* a digest whose own bits at both places differ from the imprinted ones
ImprintChangesDigest ==
    /\ call.op = "make" /\ call.ret = RETURN_SUCCESS
    /\ Sha256(ctx[lib].data)[7] \div 16 # 8
    /\ Sha256(ctx[lib].data)[9] \div 64 # 2

\* C5: cpid_make_uuid with pid > MAX_PID or micros > MAX_MICROS_OFFSET returns an
\* error without touching the handle, the hash context or the output.
InvalidArgumentsRejectedBeforeHashing ==
    [][(call'.op = "make" /\ (call'.pid > MAX_PID \/ call'.micros > MAX_MICROS_OFFSET)) =>
          (call'.ret = RETURN_ERROR /\ UNCHANGED <<heap, ctx, uuid>>)]_vars

\* a pid beyond MAX_PID is rejected on a handle that has hashed before
PidBeyondMaxRejected ==
    /\ call.op = "make" /\ call.pid > MAX_PID /\ call.ret = RETURN_ERROR
    /\ call.lh # NULL
    /\ ctx[lib].st = "finalized"

\* C6: an operation that returns an error leaves its output parameter as it was:
\* uuid for cpid_make_uuid and cpid_get_uuid, uuid_string for cpid_get_uuid_string,
\* *process_creation_time for cpid_get_process_creation_time.
OutputWrittenOnlyOnSuccess ==
    [][/\ (call'.op \in {"make", "get"} /\ call'.ret # RETURN_SUCCESS) => uuid' = uuid
       /\ (call'.op = "get_string" /\ call'.ret # RETURN_SUCCESS) => uuid_string' = uuid_string
       /\ (call'.op \in {"get", "get_string"}) =>
             LET q == cpid_get_process_creation_time(call'.pid, 1, ZeroTime, call'.info)
             IN q.ret # RETURN_SUCCESS => q.t = ZeroTime]_vars

\* the digest length is wrong: the scratch buffer holds the new digest, uuid does not
DigestLengthErrorKeepsOutput ==
    /\ call.op = "make" /\ call.ret = RETURN_ERROR
    /\ call.e.size # SHA256_BUFFER_SIZE
    /\ call.lh # NULL
    /\ CopyOut(heap[lib]) # uuid
    /\ uuid # Sentinel16

\* C7: a derivation call changes, of the handle, only pid, process_creation_time and
\* the scratch buffer: the constant fields, the two OpenSSL pointers and the objects
\* behind them stay.
DerivationKeepsConstantFields ==
    [][(call'.op \in DerivationOps) =>
          /\ lib' = lib
          /\ md' = md
          /\ \A s \in Slots :
                /\ heap'[s].st = heap[s].st
                /\ heap'[s].digest_context = heap[s].digest_context
                /\ heap'[s].sha256 = heap[s].sha256
                /\ ConstantFields(heap'[s]) = ConstantFields(heap[s])
                /\ (ctx'[s].st \in {"none", "freed"}) = (ctx[s].st \in {"none", "freed"})]_vars

\* a derivation has stored its per-call fields next to the constant fields
PerCallFieldsWritten ==
    /\ call.op = "get" /\ call.ret = RETURN_SUCCESS
    /\ heap[lib].digest_input_content.pid = call.pid
    /\ heap[lib].digest_input_content.process_creation_time.unix_epoch_seconds = call.info.tv_sec
    /\ ConstantFields(heap[lib]) = frozen
    /\ frozen.serial_number # Zeros(MACOS_SERIAL_NUMBER_BUFFER_SIZE)

\* C9: cpid_get_uuid fails when sysctl fails, answers for another pid or reports a
\* zero (or negative) start time; otherwise it does what cpid_make_uuid does with the
\* seconds and microseconds sysctl reported.
GetIdentifierDelegates ==
    [][(call'.op = "get") =>
          LET i == call'.info
              found == i.rc = 0 /\ i.p_pid = call'.pid /\ i.tv_sec > 0 /\ i.tv_usec >= 0
          IN IF found
             THEN LET r == cpid_make_uuid(call'.lh, Block, Context, call'.pid, i.tv_sec,
                                          i.tv_usec, call'.out_ptr, uuid, call'.e)
                  IN /\ call'.ret = r.ret
                     /\ uuid' = r.out
                     /\ heap' = (IF lib = NULL THEN heap ELSE [heap EXCEPT ![lib] = r.h])
                     /\ ctx' = (IF lib = NULL THEN ctx ELSE [ctx EXCEPT ![lib] = r.c])
             ELSE call'.ret = RETURN_ERROR /\ UNCHANGED <<heap, ctx, uuid>>]_vars

\* the process is found and its identifier is handed out
GetIdentifierFound ==
    /\ call.op = "get" /\ call.ret = RETURN_SUCCESS
    /\ call.info = InfoA
    /\ uuid = CopyOut(heap[lib])

\* the canonical text of 16 bytes: lowercase digits, hyphens, terminator
LowerDigits == <<48, 49, 50, 51, 52, 53, 54, 55, 56, 57, 97, 98, 99, 100, 101, 102>>

CanonicalText(bytes) ==
    [i \in 1..UUID_STRING_SIZE |->
        IF i = UUID_STRING_SIZE THEN 0
        ELSE IF i \in {9, 14, 19, 24} THEN 45
        ELSE LET n == i - 1 - Cardinality({j \in {9, 14, 19, 24} : j < i})
                 b == bytes[(n \div 2) + 1]
             IN LowerDigits[(IF n % 2 = 0 THEN b \div 16 ELSE b % 16) + 1]]

\* C10: a successful cpid_get_uuid_string returns the 8-4-4-4-12 text of the bytes
\* cpid_get_uuid returns for the same handle and pid, in lowercase, whichever case
\* uuid_unparse rendered.
StringIsLowercaseCanonical ==
    (call.op = "get_string" /\ call.ret = RETURN_SUCCESS) =>
        \A bytes \in {cpid_get_uuid(lib, heap[lib], ctx[lib], call.pid, 1, Sentinel16,
                                    call.info, AllSucceed).out} :
           /\ uuid_string = CanonicalText(bytes)
           /\ \A i \in 1..(UUID_STRING_SIZE - 1) :
                IF i \in {9, 14, 19, 24} THEN uuid_string[i] = 45
                ELSE uuid_string[i] \in 48..57 \/ uuid_string[i] \in 97..102

\* uuid_unparse rendered in upper case and the text has letters
UppercaseRenderingNormalized ==
    /\ call.op = "get_string" /\ call.ret = RETURN_SUCCESS
    /\ call.upper
    /\ \E i \in 1..(UUID_STRING_SIZE - 1) : uuid_string[i] \in 97..102

\* C8: calls that run one at a time on a shared handle (external mutex), or on a
\* handle each, return what they return when run alone.
ExclusiveCallsMatchRunAlone ==
    \A t \in Threads :
        (mode \in {"locked", "separate"} /\ pc[t] = "done") =>
            /\ tret[t] = RunAlone(t).ret
            /\ tout[t] = RunAlone(t).out

\* the race: on a shared handle without a mutex a call succeeds with bytes that are
\* not those it returns when run alone
RaceChangesResult ==
    /\ mode = "shared"
    /\ \E t \in Threads :
          /\ pc[t] = "done"
          /\ tret[t] = RETURN_SUCCESS
          /\ tout[t] # RunAlone(t).out

====
